---- MODULE Spec2Model ----
(***************************************************************************)
(* A model of the FAO production analysis library: the validators of      *)
(* src/src/validators.py and the aggregation operations of                *)
(* src/src/analysis_utils.py, applied to an in-memory production table.   *)
(* A table is a sequence of rows [area, item, element, year, unit, value];*)
(* every operation is one action that takes the program from "idle" to    *)
(* "done" and records what the call returned or raised.                   *)
(***************************************************************************)
EXTENDS Integers, Sequences, FiniteSets, TLC

VARIABLES table, pc, op, args, period, result

vars == <<table, pc, op, args, period, result>>

(***************************************************************************)
(* Bounds of the model.                                                    *)
(***************************************************************************)
MaxRows == 3        \* rows of a table
HistRows == 2       \* rows of a table of the aggregation API
MaxVal == 2         \* largest Value of a row
PeriodSlack == 2    \* how far period inputs reach around START_YEAR / END_YEAR

(***************************************************************************)
(* config.py                                                               *)
(***************************************************************************)
START_YEAR == 1961
END_YEAR == 2023

COUNTRY_GROUPS ==
    {"Africa", "Americas", "Asia", "Australia and New Zealand",
     "Caribbean", "Central America", "Central Asia", "Eastern Africa",
     "Eastern Asia", "Eastern Europe", "Europe", "European Union (27)",
     "Land Locked Developing Countries (LLDCs)",
     "Least Developed Countries (LDCs)",
     "Low Income Food Deficit Countries (LIFDCs)", "Melanesia",
     "Micronesia", "Middle Africa",
     "Net Food Importing Developing Countries (NFIDCs)",
     "Northern Africa", "Northern America", "Northern Europe",
     "Oceania", "Polynesia", "Small Island Developing States (SIDS)",
     "South America", "South-eastern Asia", "Southern Africa",
     "Southern Asia", "Southern Europe", "Western Africa",
     "Western Asia", "Western Europe", "World", "China, mainland"}

FORMER_USSR_COUNTRIES ==
    {"Uzbekistan", "Kazakhstan", "Belarus", "Azerbaijan",
     "Lithuania", "Tajikistan", "Turkmenistan", "Kyrgyzstan",
     "Republic of Moldova", "Latvia", "Armenia", "Estonia", "Georgia"}

ITEM_GROUPS ==
    {"Crops, primary", "Live Animals", "Livestock primary",
     "Beef and Buffalo Meat, primary", "Butter and Ghee",
     "Cattle and Buffaloes", "Cereals, primary", "Cheese (All Kinds)",
     "Citrus Fruit, Total", "Crops Processed", "Eggs Primary",
     "Evaporated & Condensed Milk", "Fibre Crops Primary",
     "Fibre Crops, Fibre Equivalent", "Fruit Primary",
     "Hides and skins, primary", "Livestock processed", "Meat, Poultry",
     "Meat, Total", "Milk, Total", "Oilcrops Primary",
     "Oilcrops, Cake Equivalent", "Oilcrops, Oil Equivalent",
     "Poultry Birds", "Pulses, Total", "Roots and Tubers, Total",
     "Sheep and Goat Meat", "Sheep and Goats",
     "Skim Milk & Buttermilk, Dry", "Sugar Crops Primary",
     "Treenuts, Total", "Vegetables Primary"}

(***************************************************************************)
(* Python values.  A value carries its type, so that the isinstance tests  *)
(* of the validators are tests of the model too.                           *)
(***************************************************************************)
PyInt(n) == [type |-> "int", v |-> n]
\* a float with a fractional part; v is its integer part (3.5 is PyFloat(3))
PyFloat(n) == [type |-> "float", v |-> n]
PyStr(s) == [type |-> "str", s |-> s]
\* a value that is not a string (the number 7)
PyNotStr == [type |-> "int", s |-> "7"]
PyNone == [type |-> "none", s |-> ""]

\* a period argument: a list of values, or some object that is no list
PyList(elems) == [isList |-> TRUE, elems |-> elems]
PyNotList == [isList |-> FALSE, elems |-> <<>>]
IntList(s, e) == PyList(<<PyInt(s), PyInt(e)>>)

\* a countries argument: None, a list of values, or an object that cannot be iterated
NoCountries == [kind |-> "none", list |-> <<>>]
CountryList(names) == [kind |-> "list", list |-> names]
NotIterable == [kind |-> "int", list |-> <<>>]

\* the default value of every period parameter
DefaultPeriod == IntList(1961, 2023)

Ok(value) == [status |-> "ok", value |-> value]
Raised(error) == [status |-> error, value |-> <<>>]

Range(seq) == {seq[i] : i \in DOMAIN seq}

(***************************************************************************)
(* validators.py                                                           *)
(***************************************************************************)
\* validate_period with the start > end test made before the two clamps
ValidatePeriodTestsBeforeClamping(p) ==
    IF ~p.isList
    THEN [status |-> "TypeError", period |-> p]
    ELSE IF Len(p.elems) # 2
    THEN [status |-> "ValueError", period |-> p]
    ELSE IF p.elems[1].type # "int" \/ p.elems[2].type # "int"
    THEN [status |-> "TypeError", period |-> p]
    ELSE IF p.elems[1].v > p.elems[2].v
    THEN [status |-> "ValueError", period |-> p]
    ELSE [status |-> "ok",
          period |-> IntList(IF p.elems[1].v < START_YEAR THEN 1961 ELSE p.elems[1].v,
                             IF p.elems[2].v > END_YEAR THEN 2023 ELSE p.elems[2].v)]

\* validate_period: the outcome and the caller's list as the call leaves it.
\* The two assignments of lines 20 and 23 are made before the test of line 25,
\* so the list is changed also when that test raises.
validate_period(p) ==
    IF ~p.isList
    THEN [status |-> "TypeError", period |-> p]
    ELSE IF Len(p.elems) # 2
    THEN [status |-> "ValueError", period |-> p]
    ELSE IF p.elems[1].type # "int" \/ p.elems[2].type # "int"
    THEN [status |-> "TypeError", period |-> p]
    ELSE LET p0 == IF p.elems[1].v < START_YEAR THEN 1961 ELSE p.elems[1].v
             p1 == IF p.elems[2].v > END_YEAR THEN 2023 ELSE p.elems[2].v
             q == IntList(p0, p1)
         IN IF p0 > p1
            THEN [status |-> "ValueError", period |-> q]
            ELSE [status |-> "ok", period |-> q]

Items(df) == {df[i].item : i \in DOMAIN df}
Areas(df) == {df[i].area : i \in DOMAIN df}

validate_product(product, df) ==
    IF product.type # "str" THEN "TypeError"
    ELSE IF product.s \notin Items(df) THEN "ValueError"
    ELSE "ok"

NumberOfCountriesOffByOne(df) == Cardinality(Areas(df) \ COUNTRY_GROUPS) + 1

number_of_countries(df) == Cardinality(Areas(df) \ COUNTRY_GROUPS)

validate_top_n(top_n, df) ==
    IF top_n.type # "int" THEN "TypeError"
    ELSE IF top_n.v \notin 1..number_of_countries(df) THEN "ValueError"
    ELSE "ok"

validate_countries(countries, df) ==
    IF countries.kind # "list" THEN "TypeError"
    ELSE IF \E c \in Range(countries.list) : c.type # "str" THEN "TypeError"
    ELSE IF \E c \in Range(countries.list) : c.s \notin Areas(df) THEN "ValueError"
    ELSE "ok"

(***************************************************************************)
(* Tables.  groupby returns its groups in the order of their keys, so the  *)
(* model orders the strings it uses as Python does (by code point).       *)
(***************************************************************************)
STRING_ORDER ==
    <<"An", "Area harvested", "Atlantis", "Brazil", "Estonia",
      "Former USSR Countries", "France", "India", "Latvia", "Maize",
      "Meat, Total", "Production", "Rice", "Russian Federation", "Wheat",
      "World", "t">>

StrRank(s) == CHOOSE i \in DOMAIN STRING_ORDER : STRING_ORDER[i] = s

\* the order of tuples of integers, component by component
LexLess(a, b) ==
    \E i \in DOMAIN a : a[i] < b[i] /\ \A j \in 1..(i - 1) : a[j] = b[j]

\* the elements of S in increasing order of their sort keys, key[x] a tuple
\* of integers
SortByKey(S, key) ==
    [i \in 1..Cardinality(S) |->
        CHOOSE x \in S : Cardinality({y \in S : LexLess(key[y], key[x])}) = i - 1]

\* groupby(keys).sum() over a sequence of <<key, value>> pairs, row by row:
\* the function from each key met to the sum of its values
RECURSIVE GroupBySumKeepsLast(_)
GroupBySumKeepsLast(pairs) ==
    IF pairs = <<>> THEN <<>>
    ELSE LET n == Len(pairs)
             prev == GroupBySumKeepsLast(SubSeq(pairs, 1, n - 1))
             k == pairs[n][1]
         IN IF k \in DOMAIN prev
            THEN [prev EXCEPT ![k] = pairs[n][2]]
            ELSE prev @@ (k :> pairs[n][2])

RECURSIVE GroupBySum(_)
GroupBySum(pairs) ==
    IF pairs = <<>> THEN <<>>
    ELSE LET n == Len(pairs)
             prev == GroupBySum(SubSeq(pairs, 1, n - 1))
             k == pairs[n][1]
         IN IF k \in DOMAIN prev
            THEN [prev EXCEPT ![k] = @ + pairs[n][2]]
            ELSE prev @@ (k :> pairs[n][2])

(***************************************************************************)
(* analysis_utils.py                                                       *)
(***************************************************************************)
\* the frame of rows [Area, Year, Value] grouped from the rows `rows` of a table
AreaYearFrame(rows) ==
    LET sums == GroupBySum([i \in DOMAIN rows |->
                                <<<<rows[i].area, rows[i].year>>, rows[i].value>>])
        keys == SortByKey(DOMAIN sums, [k \in DOMAIN sums |-> <<StrRank(k[1]), k[2]>>])
    IN [i \in DOMAIN keys |->
            [Area |-> keys[i][1], Year |-> keys[i][2], Value |-> sums[keys[i]]]]

HistoricalMaskKeepsGroups(r, countries, p, product) ==
    /\ r.year >= p.elems[1].v
    /\ r.year <= p.elems[2].v
    /\ countries.kind # "none" => r.area \in {c.s : c \in Range(countries.list)}
    /\ product.type # "none" => r.item = product.s

\* the mask of lines 58-66
HistoricalMask(r, countries, p, product) ==
    /\ r.year >= p.elems[1].v
    /\ r.year <= p.elems[2].v
    /\ IF countries.kind # "none"
       THEN r.area \in {c.s : c \in Range(countries.list)}
       ELSE r.area \notin COUNTRY_GROUPS
    /\ product.type # "none" => r.item = product.s

\* get_historical_production: the outcome, the frame returned, and the
\* caller's period list as the call leaves it
get_historical_production(df, countries, p, product) ==
    LET c == IF countries.kind # "none" THEN validate_countries(countries, df) ELSE "ok"
        vp == validate_period(p)
        pr == IF product.type # "none" THEN validate_product(product, df) ELSE "ok"
    IN IF c # "ok" THEN [status |-> c, value |-> <<>>, period |-> p]
       ELSE IF vp.status # "ok"
       THEN [status |-> vp.status, value |-> <<>>, period |-> vp.period]
       ELSE IF pr # "ok" THEN [status |-> pr, value |-> <<>>, period |-> vp.period]
       ELSE [status |-> "ok",
             value |-> AreaYearFrame(SelectSeq(df,
                          LAMBDA r : HistoricalMask(r, countries, vp.period, product))),
             period |-> vp.period]

\* groupby("Year")["Value"].rank(ascending=False).astype(int): rank's default
\* method gives tied rows the mean of the places they take, and astype(int)
\* drops its fractional part
RankOf(frame, i) ==
    LET year == {j \in DOMAIN frame : frame[j].Year = frame[i].Year}
        greater == Cardinality({j \in year : frame[j].Value > frame[i].Value})
        equal == Cardinality({j \in year : frame[j].Value = frame[i].Value})
    IN (2 * greater + equal + 1) \div 2

get_historical_rank(df, countries, p, product) ==
    LET h == get_historical_production(df, countries, p, product)
    IN IF h.status # "ok" THEN h
       ELSE [h EXCEPT !.value =
                [i \in DOMAIN h.value |->
                    [Area |-> h.value[i].Area, Year |-> h.value[i].Year,
                     Value |-> h.value[i].Value, Rank |-> RankOf(h.value, i)]]]

\* groupby("Area")[["Value"]].sum() of a frame: rows [Area, Value] by Area
AreaFrame(frame) ==
    LET sums == GroupBySum([i \in DOMAIN frame |-> <<frame[i].Area, frame[i].Value>>])
        keys == SortByKey(DOMAIN sums, [a \in DOMAIN sums |-> <<StrRank(a)>>])
    IN [i \in DOMAIN keys |-> [Area |-> keys[i], Value |-> sums[keys[i]]]]

\* sort_values(by="Value", ascending=False): its default sort is not stable,
\* so rows of equal Value may come out in any order
SortValuesDescending(frame) ==
    {[i \in DOMAIN frame |-> frame[f[i]]] : f \in
        {g \in Permutations(DOMAIN frame) :
            \A i, j \in DOMAIN frame : i < j => frame[g[i]].Value >= frame[g[j]].Value}}

\* nlargest(n, "Value"), which keeps the first of equal rows, on a frame
\* already in descending order
NLargestSorted(frame, n) == SubSeq(frame, 1, IF n < Len(frame) THEN n ELSE Len(frame))

\* the per-area totals get_top_producers ranks (lines 130-137)
TopProducersTotals(df) ==
    LET historical == get_historical_production(df, NoCountries, DefaultPeriod, PyNone).value
    IN AreaFrame(SelectSeq(historical, LAMBDA r : r.Year >= 1961 /\ r.Year <= 2023))

\* get_top_producers: the outcomes the call can have
get_top_producers(df, p, product, top_n) ==
    LET t == validate_top_n(top_n, df)
    IN IF t # "ok" THEN {Raised(t)}
       ELSE {Ok(NLargestSorted(s, top_n.v)) : s \in SortValuesDescending(TopProducersTotals(df))}

\* the frame of rows [Item, Year, Value] grouped from the rows `rows` of a table
ItemYearFrame(rows) ==
    LET sums == GroupBySum([i \in DOMAIN rows |->
                                <<<<rows[i].item, rows[i].year>>, rows[i].value>>])
        keys == SortByKey(DOMAIN sums, [k \in DOMAIN sums |-> <<StrRank(k[1]), k[2]>>])
    IN [i \in DOMAIN keys |->
            [Item |-> keys[i][1], Year |-> keys[i][2], Value |-> sums[keys[i]]]]

get_country_production_items(df, country, p) ==
    LET c == validate_countries(CountryList(<<country>>), df)
        vp == validate_period(p)
    IN IF c # "ok" THEN [status |-> c, value |-> <<>>, period |-> p]
       ELSE IF vp.status # "ok"
       THEN [status |-> vp.status, value |-> <<>>, period |-> vp.period]
       ELSE [status |-> "ok",
             value |-> ItemYearFrame(SelectSeq(df,
                          LAMBDA r : r.area = country.s /\ r.item \in ITEM_GROUPS)),
             period |-> vp.period]

SliceOfDropsElement(r) == <<r.item, "Production", r.year, r.unit>>

\* the groupby key of a row in merge_former_ussr_countries
SliceOf(r) == <<r.item, r.element, r.year, r.unit>>

merge_former_ussr_countries(df_prod) ==
    LET ussr == SelectSeq(df_prod, LAMBDA r : r.area \in FORMER_USSR_COUNTRIES)
        sums == GroupBySum([i \in DOMAIN ussr |-> <<SliceOf(ussr[i]), ussr[i].value>>])
        keys == SortByKey(DOMAIN sums,
                    [k \in DOMAIN sums |->
                        <<StrRank(k[1]), StrRank(k[2]), k[3], StrRank(k[4])>>])
        df_prod_ussr ==
            [i \in DOMAIN keys |->
                [area |-> "Former USSR Countries", item |-> keys[i][1],
                 element |-> keys[i][2], year |-> keys[i][3], unit |-> keys[i][4],
                 value |-> sums[keys[i]]]]
        df_no_ussr == SelectSeq(df_prod, LAMBDA r : r.area \notin FORMER_USSR_COUNTRIES)
    IN df_no_ussr \o df_prod_ussr

\* groupby("Year")[["Value"]].sum().reset_index() of a frame: rows [Year, Value]
YearFrame(frame) ==
    LET sums == GroupBySum([i \in DOMAIN frame |-> <<frame[i].Year, frame[i].Value>>])
        keys == SortByKey(DOMAIN sums, [y \in DOMAIN sums |-> <<y>>])
    IN [i \in DOMAIN keys |-> [Year |-> keys[i], Value |-> sums[keys[i]]]]

\* floating-point values: a number (in hundredths once rounded), inf or NaN
Num(v) == [kind |-> "num", v |-> v]
NaN == [kind |-> "nan", v |-> 0]
Inf == [kind |-> "inf", v |-> 0]

\* round(n / d, 2) in hundredths, halves to the even neighbour
RoundHundredths(n, d) ==
    LET q == (100 * n) \div d
        r == (100 * n) % d
    IN IF 2 * r < d THEN q
       ELSE IF 2 * r > d THEN q + 1
       ELSE IF q % 2 = 0 THEN q ELSE q + 1

\* round(c / w * 100, 2) for non-negative values
SharePercent(c, w) ==
    IF w = 0 THEN (IF c = 0 THEN NaN ELSE Inf)
    ELSE Num(RoundHundredths(100 * c, w))

\* lines 226 and 228: the rows of the year are selected from the two frames
\* with the row labels reset_index gave them (their positions); the division
\* pairs the two Series by label, gives NaN at a label only one of them has,
\* and .values[0] takes the value at the smallest label
ShareOfYear(historic_country, historic_world, year) ==
    LET ci == {j \in DOMAIN historic_country : historic_country[j].Year = year}
        wi == {j \in DOMAIN historic_world : historic_world[j].Year = year}
        labels == ci \cup wi
        first == CHOOSE j \in labels : \A k \in labels : j <= k
    IN IF labels = {} THEN Raised("IndexError")
       ELSE IF first \in ci /\ first \in wi
       THEN Ok(SharePercent(historic_country[first].Value, historic_world[first].Value))
       ELSE Ok(NaN)

\* nlargest(n, "Value") of a frame: the rows in descending order of Value,
\* rows of equal Value in the order of the frame
NLargest(frame, n) ==
    LET order == SortByKey(DOMAIN frame, [i \in DOMAIN frame |-> <<0 - frame[i].Value, i>>])
    IN [k \in 1..(IF n < Len(frame) THEN n ELSE Len(frame)) |-> frame[order[k]]]

\* get_report_country_on_item without its plot: the two shares it prints and
\* the top 5 it returns
get_report_country_on_item(df, country, product) ==
    LET historic_country ==
            get_historical_production(df, CountryList(<<country>>), IntList(1961, 2023), product)
        historic_product ==
            get_historical_production(df, NoCountries, IntList(1961, 2023), product)
        historic_world == YearFrame(historic_product.value)
        share_1961 == ShareOfYear(historic_country.value, historic_world, 1961)
        share_2023 == ShareOfYear(historic_country.value, historic_world, 2023)
    IN IF historic_country.status # "ok" THEN Raised(historic_country.status)
       ELSE IF historic_product.status # "ok" THEN Raised(historic_product.status)
       ELSE IF share_1961.status # "ok" THEN share_1961
       ELSE IF share_2023.status # "ok" THEN share_2023
       ELSE Ok([share_1961 |-> share_1961.value, share_2023 |-> share_2023.value,
                top5 |-> NLargest(AreaFrame(historic_product.value), 5)])

(***************************************************************************)
(* State.                                                                  *)
(***************************************************************************)
NoArgs == [countries |-> NoCountries, period |-> PyNotList, product |-> PyNone,
           top_n |-> PyInt(0), country |-> PyNone]

InitWith(tables) ==
    /\ table \in tables
    /\ pc = "idle"
    /\ op = "none"
    /\ args = NoArgs
    /\ period = PyNotList
    /\ result = Ok(<<>>)

Finish(name, a, p, r) ==
    /\ pc = "idle"
    /\ pc' = "done"
    /\ op' = name
    /\ args' = a
    /\ period' = p
    /\ result' = r
    /\ UNCHANGED table

(***************************************************************************)
(* validate_period on its own.                                             *)
(***************************************************************************)
YearInputs ==
    {1950, 1955} \cup ((START_YEAR - PeriodSlack)..(START_YEAR + PeriodSlack))
                 \cup ((END_YEAR - PeriodSlack)..(END_YEAR + PeriodSlack))

PeriodInputs ==
    {IntList(s, e) : s \in YearInputs, e \in YearInputs}
        \cup {PyNotList,
              PyList(<<PyInt(1961)>>),
              PyList(<<PyInt(1961), PyInt(1990), PyInt(2023)>>),
              PyList(<<PyFloat(1961), PyInt(2023)>>),
              PyList(<<PyInt(1961), PyFloat(2022)>>)}

ValidatePeriod ==
    \E p \in PeriodInputs :
        LET r == validate_period(p)
        IN Finish("validate_period", [NoArgs EXCEPT !.period = p], r.period,
                  IF r.status = "ok" THEN Ok(r.period) ELSE Raised(r.status))

(***************************************************************************)
(* The tables and the calls of the model.                                  *)
(***************************************************************************)
Rows(areas, items, elements, years, units, values) ==
    [area : areas, item : items, element : elements, year : years,
     unit : units, value : values]

TablesOver(rows, n) == UNION {[1..k -> rows] : k \in 0..n}

\* each action takes the set of argument tuples its calls are drawn from
GetHistoricalProduction(calls) ==
    \E a \in calls :
        LET r == get_historical_production(table, a[1], a[2], a[3])
        IN Finish("get_historical_production",
                  [NoArgs EXCEPT !.countries = a[1], !.period = a[2], !.product = a[3]],
                  r.period,
                  IF r.status = "ok" THEN Ok(r.value) ELSE Raised(r.status))

GetHistoricalRank(calls) ==
    \E a \in calls :
        LET r == get_historical_rank(table, a[1], a[2], a[3])
        IN Finish("get_historical_rank",
                  [NoArgs EXCEPT !.countries = a[1], !.period = a[2], !.product = a[3]],
                  r.period,
                  IF r.status = "ok" THEN Ok(r.value) ELSE Raised(r.status))

GetTopProducers(calls) ==
    \E a \in calls :
        \E r \in get_top_producers(table, a[1], a[2], a[3]) :
            Finish("get_top_producers",
                   [NoArgs EXCEPT !.period = a[1], !.product = a[2], !.top_n = a[3]],
                   a[1], r)

GetCountryProductionItems(calls) ==
    \E a \in calls :
        LET r == get_country_production_items(table, a[1], a[2])
        IN Finish("get_country_production_items",
                  [NoArgs EXCEPT !.country = a[1], !.period = a[2]],
                  r.period,
                  IF r.status = "ok" THEN Ok(r.value) ELSE Raised(r.status))

GetReportCountryOnItem(calls) ==
    \E a \in calls :
        Finish("get_report_country_on_item",
               [NoArgs EXCEPT !.country = a[1], !.product = a[2]],
               PyNotList, get_report_country_on_item(table, a[1], a[2]))

MergeFormerUssrCountries ==
    Finish("merge_former_ussr_countries", NoArgs, PyNotList,
           Ok(merge_former_ussr_countries(table)))

ValidateTopN(calls) ==
    \E n \in calls :
        LET r == validate_top_n(n, table)
        IN Finish("validate_top_n", [NoArgs EXCEPT !.top_n = n], PyNotList,
                  IF r = "ok" THEN Ok(<<>>) ELSE Raised(r))

(***************************************************************************)
(* The aggregation API on tables of two areas (a country and a group),     *)
(* two items (one of them an item group) and two years.                    *)
(***************************************************************************)
ApiRows == Rows({"France", "World"}, {"Wheat", "Meat, Total"}, {"Production"},
                {1961, 2023}, {"t"}, 1..MaxVal)

ApiCountries == {NoCountries, CountryList(<<PyStr("France")>>),
                 CountryList(<<PyStr("France"), PyStr("World")>>)}
ApiPeriods == {DefaultPeriod, IntList(1950, 1961), IntList(2023, 1961)}
ApiProducts == {PyNone, PyStr("Wheat"), PyStr("Rice")}

Init == InitWith(TablesOver(ApiRows, HistRows))

Next ==
    \/ GetHistoricalProduction(ApiCountries \X ApiPeriods \X ApiProducts)
    \/ GetHistoricalRank({NoCountries} \X ApiPeriods \X ApiProducts)
    \/ GetTopProducers(ApiPeriods \X ApiProducts \X {PyInt(1)})
    \/ GetCountryProductionItems({PyStr("France")} \X ApiPeriods)

Spec == Init /\ [][Next]_vars

(***************************************************************************)
(* get_historical_production on its own, on the same tables.               *)
(***************************************************************************)
HistCalls ==
    (ApiCountries \X ApiPeriods \X {PyNone, PyStr("Wheat")})
        \cup ({NotIterable, CountryList(<<PyStr("France"), PyNotStr>>),
               CountryList(<<PyStr("World"), PyStr("Atlantis")>>)}
              \X {DefaultPeriod} \X {PyNone})
        \cup ({NoCountries} \X {PyNotList, DefaultPeriod} \X {PyStr("Rice"), PyNotStr})

InitHist == InitWith(TablesOver(ApiRows, HistRows))
NextHist == GetHistoricalProduction(HistCalls)
SpecHist == InitHist /\ [][NextHist]_vars


(***************************************************************************)
(* get_historical_rank on tables of three countries and two years.         *)
(***************************************************************************)
RankRows == Rows({"Brazil", "France", "India"}, {"Wheat"}, {"Production"},
                 {1961, 2023}, {"t"}, 1..MaxVal)
RankCalls ==
    {NoCountries, CountryList(<<PyStr("Brazil"), PyStr("France")>>)}
        \X {DefaultPeriod, IntList(2023, 2030), IntList(2023, 1961)} \X {PyNone}

InitRank == InitWith(TablesOver(RankRows, MaxRows))
NextRank == GetHistoricalRank(RankCalls)
SpecRank == InitRank /\ [][NextRank]_vars

(***************************************************************************)
(* get_top_producers with its default period and product, on tables of     *)
(* three countries and a group.                                            *)
(***************************************************************************)
TopRows == Rows({"Brazil", "France", "India", "World"}, {"Wheat"}, {"Production"},
                {1961}, {"t"}, 1..MaxVal)
TopNInputs == {PyInt(n) : n \in 0..MaxRows} \cup {PyFloat(3)}

InitTop == InitWith(TablesOver(TopRows, MaxRows))
NextTop == GetTopProducers({DefaultPeriod} \X {PyNone} \X TopNInputs)
SpecTop == InitTop /\ [][NextTop]_vars

(***************************************************************************)
(* validate_top_n on its own, on tables of three countries and a group.    *)
(***************************************************************************)
TopNRows == Rows({"Brazil", "France", "India", "World"}, {"Wheat"}, {"Production"},
                 {1961}, {"t"}, {1})

InitTopN == InitWith(TablesOver(TopNRows, MaxRows))
NextTopN == ValidateTopN({PyInt(n) : n \in -1..(MaxRows + 2)} \cup {PyFloat(3), PyFloat(0)})
SpecTopN == InitTopN /\ [][NextTopN]_vars

(***************************************************************************)
(* get_report_country_on_item on tables of two countries and three years.  *)
(***************************************************************************)
ReportRows == Rows({"Brazil", "France"}, {"Wheat"}, {"Production"},
                   {1961, 1962, 2023}, {"t"}, 0..MaxVal)
ReportCalls == {<<PyStr("France"), PyStr("Wheat")>>, <<PyStr("Atlantis"), PyStr("Wheat")>>,
                <<PyStr("France"), PyStr("Rice")>>}

InitReport == InitWith(TablesOver(ReportRows, MaxRows))
NextReport == GetReportCountryOnItem(ReportCalls)
SpecReport == InitReport /\ [][NextReport]_vars

(***************************************************************************)
(* merge_former_ussr_countries on tables of two former USSR countries and  *)
(* Russia, with two elements.                                              *)
(***************************************************************************)
MergeRows == Rows({"Estonia", "Latvia", "Russian Federation"}, {"Wheat"},
                  {"Area harvested", "Production"}, {1961}, {"t"}, 1..MaxVal)

InitMerge == InitWith(TablesOver(MergeRows, MaxRows))
NextMerge == MergeFormerUssrCountries
SpecMerge == InitMerge /\ [][NextMerge]_vars

InitPeriod == InitWith({<<>>})
NextPeriod == ValidatePeriod
SpecPeriod == InitPeriod /\ [][NextPeriod]_vars

(***************************************************************************)
(* Helpers of the properties.                                              *)
(***************************************************************************)
Done(name) == pc = "done" /\ op = name
Returned(name) == Done(name) /\ result.status = "ok"

\* the sum of the Value of the rows of df at the indices I
RECURSIVE SumRows(_, _)
SumRows(df, I) ==
    IF I = {} THEN 0
    ELSE LET i == CHOOSE j \in I : TRUE IN df[i].value + SumRows(df, I \ {i})

\* the sum of the Value column of a frame
RECURSIVE SumFrame(_)
SumFrame(frame) ==
    IF frame = <<>> THEN 0 ELSE Head(frame).Value + SumFrame(Tail(frame))

Permuted(df, f) == [i \in DOMAIN df |-> df[f[i]]]

(***************************************************************************)
(* C1: every public aggregation operation runs the matching validator on   *)
(* every period and product argument it accepts: a call with a period the  *)
(* period validator rejects, or with a product absent from the table,      *)
(* fails with an error instead of returning a result.                      *)
(***************************************************************************)
AggregationOperations ==
    {"get_historical_production", "get_historical_rank", "get_top_producers",
     "get_country_production_items"}

RejectedPeriod == validate_period(args.period).status # "ok"
AbsentProduct == args.product.type = "str" /\ args.product.s \notin Items(table)

C1_EveryOperationValidatesItsArguments ==
    (pc = "done" /\ op \in AggregationOperations /\ (RejectedPeriod \/ AbsentProduct))
        => result.status \in {"TypeError", "ValueError"}

(***************************************************************************)
(* C2: validate_period clamps both elements of a pair of integers into     *)
(* [1961, 2023], writes the clamped values into the caller's list, and     *)
(* raises ValueError only if the clamped start exceeds the clamped end.    *)
(***************************************************************************)
Clamped(y) == IF y < 1961 THEN 1961 ELSE IF y > 2023 THEN 2023 ELSE y

IsIntPair(p) ==
    p.isList /\ Len(p.elems) = 2 /\ p.elems[1].type = "int" /\ p.elems[2].type = "int"

C2_ClampsBothElementsInward ==
    (Done("validate_period") /\ IsIntPair(args.period)) =>
        LET s == Clamped(args.period.elems[1].v)
            e == Clamped(args.period.elems[2].v)
        IN /\ period = IntList(s, e)
           /\ result.status = (IF s > e THEN "ValueError" ELSE "ok")

(***************************************************************************)
(* C3: get_historical_rank gives Rank 1 to every area whose value is the   *)
(* largest of its year, and the same Rank to areas of equal value in one   *)
(* year, however many areas tie.                                           *)
(***************************************************************************)
C3_MaximumOfEachYearHasRankOne ==
    Returned("get_historical_rank") =>
        \A j \in DOMAIN result.value :
            /\ (\A k \in DOMAIN result.value :
                    result.value[k].Year = result.value[j].Year
                        => result.value[k].Value <= result.value[j].Value)
               => result.value[j].Rank = 1
            /\ \A k \in DOMAIN result.value :
                   (/\ result.value[k].Year = result.value[j].Year
                    /\ result.value[k].Value = result.value[j].Value)
                   => result.value[k].Rank = result.value[j].Rank

(***************************************************************************)
(* C4: for every top_n that validate_top_n accepts, get_top_producers      *)
(* returns exactly top_n areas, none of them a country group, each with    *)
(* its total value, and every returned total is at least the total of      *)
(* every individual country that was not returned.                         *)
(***************************************************************************)
RowsOfArea(a) == {i \in DOMAIN table : table[i].area = a}
ReturnedAreas == {result.value[j].Area : j \in DOMAIN result.value}

C4_TopProducersAreTheTopN ==
    (Done("get_top_producers") /\ validate_top_n(args.top_n, table) = "ok") =>
        /\ result.status = "ok"
        /\ Len(result.value) = args.top_n.v
        /\ Cardinality(ReturnedAreas) = args.top_n.v
        /\ ReturnedAreas \cap COUNTRY_GROUPS = {}
        /\ \A j \in DOMAIN result.value :
               /\ result.value[j].Value = SumRows(table, RowsOfArea(result.value[j].Area))
               /\ \A a \in (Areas(table) \ COUNTRY_GROUPS) \ ReturnedAreas :
                      result.value[j].Value >= SumRows(table, RowsOfArea(a))

\* one of two countries is returned, the other country and a group are left out
C4_Witness ==
    /\ Returned("get_top_producers")
    /\ args.top_n.v = 1
    /\ Len(table) = 3
    /\ Cardinality(Areas(table) \ COUNTRY_GROUPS) = 2
    /\ "World" \in Areas(table)
    /\ \E a \in Areas(table) \ ReturnedAreas : a \notin COUNTRY_GROUPS

(***************************************************************************)
(* C5: the totals get_top_producers ranks are summed only over the records *)
(* whose year lies in the caller's normalized period and, when a product   *)
(* is given, whose item is the product.                                    *)
(***************************************************************************)
InCallersPeriodAndProduct(r) ==
    LET p == validate_period(args.period).period
    IN /\ p.elems[1].v <= r.year
       /\ r.year <= p.elems[2].v
       /\ args.product.type = "none" \/ r.item = args.product.s

C5_TopProducersHonourPeriodAndProduct ==
    (Returned("get_top_producers") /\ ~RejectedPeriod /\ ~AbsentProduct) =>
        \A j \in DOMAIN result.value :
            result.value[j].Value =
                SumRows(table, {i \in RowsOfArea(result.value[j].Area) :
                                   InCallersPeriodAndProduct(table[i])})

(***************************************************************************)
(* C6: in get_report_country_on_item, for each of the years 1961 and 2023, *)
(* the share is 100 x the country's value of the product in that year /    *)
(* the sum over all individual countries of the product's value in that    *)
(* year (rounded to two decimals), whenever both values exist and the      *)
(* world value is not zero, whatever other years have records.             *)
(***************************************************************************)
CountryRows(y) ==
    {i \in DOMAIN table : /\ table[i].area = args.country.s
                          /\ table[i].item = args.product.s
                          /\ table[i].year = y}
WorldRows(y) ==
    {i \in DOMAIN table : /\ table[i].area \notin COUNTRY_GROUPS
                          /\ table[i].item = args.product.s
                          /\ table[i].year = y}

ShareIsTheRatio(y, share) ==
    (CountryRows(y) # {} /\ WorldRows(y) # {} /\ SumRows(table, WorldRows(y)) # 0) =>
        share = Num((10000 * SumRows(table, CountryRows(y))
                        + SumRows(table, WorldRows(y)) \div 2)
                    \div SumRows(table, WorldRows(y)))

C6_SharesAreTheRatioOfTheYear ==
    Returned("get_report_country_on_item") =>
        /\ ShareIsTheRatio(1961, result.value.share_1961)
        /\ ShareIsTheRatio(2023, result.value.share_2023)

\* the common filter, on the arguments of the call and the period it normalized
Passes(r) ==
    /\ period.elems[1].v <= r.year
    /\ r.year <= period.elems[2].v
    /\ IF args.countries.kind = "none"
       THEN r.area \notin COUNTRY_GROUPS
       ELSE \E i \in DOMAIN args.countries.list : args.countries.list[i].s = r.area
    /\ args.product.type = "none" \/ r.item = args.product.s

PassingAt(a, y) == {i \in DOMAIN table : Passes(table[i]) /\ table[i].area = a /\ table[i].year = y}

(***************************************************************************)
(* C7: get_historical_production returns exactly the mapping               *)
(* (area, year) -> sum of value over the records that pass the common      *)
(* filter: a key is present if and only if a record passes the filter for  *)
(* it, each key is present once, and every permutation of the rows of the  *)
(* table gives the same result.                                            *)
(***************************************************************************)
C7_HistoricalProductionIsTheFilteredSum ==
    Returned("get_historical_production") =>
        /\ \A i \in DOMAIN table :
               Passes(table[i]) =>
                   \E j \in DOMAIN result.value :
                       /\ result.value[j].Area = table[i].area
                       /\ result.value[j].Year = table[i].year
        /\ \A j \in DOMAIN result.value :
               /\ PassingAt(result.value[j].Area, result.value[j].Year) # {}
               /\ result.value[j].Value =
                      SumRows(table, PassingAt(result.value[j].Area, result.value[j].Year))
        /\ \A j, k \in DOMAIN result.value :
               (/\ result.value[j].Area = result.value[k].Area
                /\ result.value[j].Year = result.value[k].Year) => j = k
        /\ \A f \in Permutations(DOMAIN table) :
               LET r == get_historical_production(Permuted(table, f), args.countries,
                                                  args.period, args.product)
               IN r.status = "ok" /\ r.value = result.value

\* two different rows of one (area, year) pass a filter on countries and product
C7_Witness ==
    /\ Returned("get_historical_production")
    /\ args.countries.kind = "list"
    /\ args.product.type = "str"
    /\ Len(table) = 2
    /\ table[1].value # table[2].value
    /\ Len(result.value) = 1
    /\ result.value[1].Value = table[1].value + table[2].value

(***************************************************************************)
(* C8: merge_former_ussr_countries preserves the sum of value of every     *)
(* (item, element, year, unit) slice, leaves no row whose area is in       *)
(* FORMER_USSR_COUNTRIES, and carries the rows of every other area over    *)
(* unchanged.                                                              *)
(***************************************************************************)
SliceRows(df, k) == {i \in DOMAIN df : SliceOf(df[i]) = k}
SlicesOf(df) == {<<df[i].item, df[i].element, df[i].year, df[i].unit>> : i \in DOMAIN df}
OtherArea(r) == r.area \notin FORMER_USSR_COUNTRIES \cup {"Former USSR Countries"}

C8_MergePreservesSliceTotals ==
    Returned("merge_former_ussr_countries") =>
        /\ \A k \in SlicesOf(table) \cup SlicesOf(result.value) :
               SumRows(result.value, {i \in DOMAIN result.value :
                   <<result.value[i].item, result.value[i].element,
                     result.value[i].year, result.value[i].unit>> = k})
                 = SumRows(table, {i \in DOMAIN table :
                       <<table[i].item, table[i].element,
                         table[i].year, table[i].unit>> = k})
        /\ \A i \in DOMAIN result.value : result.value[i].area \notin FORMER_USSR_COUNTRIES
        /\ SelectSeq(result.value, OtherArea) = SelectSeq(table, OtherArea)

\* two former USSR rows of one element collapse into one row, a row of Russia is kept
C8_Witness ==
    /\ Returned("merge_former_ussr_countries")
    /\ Len(table) = 3
    /\ \E i, j \in DOMAIN table :
           /\ table[i].area = "Estonia"
           /\ table[j].area = "Latvia"
           /\ table[i].element = table[j].element
    /\ \E i \in DOMAIN table : table[i].area = "Russian Federation"
    /\ Len(result.value) = 2

(***************************************************************************)
(* C9: for a country all of whose items are in ITEM_GROUPS and every       *)
(* valid period, the values returned by get_country_production_items sum   *)
(* to the sum of the values returned by get_historical_production for      *)
(* that country and period with no product filter.                         *)
(***************************************************************************)
C9_ItemsAndYearsSumToTheSame ==
    (/\ Returned("get_country_production_items")
     /\ \A i \in DOMAIN table :
            table[i].area = args.country.s => table[i].item \in ITEM_GROUPS) =>
        SumFrame(result.value) =
            SumFrame(get_historical_production(table, CountryList(<<args.country>>),
                                               args.period, PyNone).value)

(***************************************************************************)
(* C10: validate_top_n accepts an integer top_n exactly when               *)
(* 1 <= top_n <= N, N the number of distinct areas of the table that are   *)
(* not country groups; it raises ValueError for every other integer and    *)
(* TypeError for every value that is not an integer.                       *)
(***************************************************************************)
IndividualCountries ==
    {a \in Range(STRING_ORDER) : a \notin COUNTRY_GROUPS /\ \E i \in DOMAIN table : table[i].area = a}

C10_TopNAcceptedExactlyInRange ==
    Done("validate_top_n") =>
        result.status =
            IF args.top_n.type # "int" THEN "TypeError"
            ELSE IF 1 <= args.top_n.v /\ args.top_n.v <= Cardinality(IndividualCountries)
            THEN "ok"
            ELSE "ValueError"

\* N itself is accepted on a table of two countries and a group
C10_Witness ==
    /\ Returned("validate_top_n")
    /\ "World" \in Areas(table)
    /\ Cardinality(IndividualCountries) = 2
    /\ args.top_n = PyInt(2)

(***************************************************************************)
(* C11: whenever validate_period returns, the pair it returns satisfies    *)
(* 1961 <= start <= end <= 2023, and validating the returned pair again    *)
(* returns without error and gives the same pair.                          *)
(***************************************************************************)
C11_ReturnedPeriodIsNormalAndStable ==
    Returned("validate_period") =>
        /\ IsIntPair(result.value)
        /\ 1961 <= result.value.elems[1].v
        /\ result.value.elems[1].v <= result.value.elems[2].v
        /\ result.value.elems[2].v <= 2023
        /\ result.value = period
        /\ validate_period(result.value) = [status |-> "ok", period |-> result.value]

\* a period reaching out of the data on both sides was clamped and returned
C11_Witness ==
    /\ Returned("validate_period")
    /\ IsIntPair(args.period)
    /\ args.period.elems[1].v < 1961
    /\ args.period.elems[2].v > 2023
    /\ result.value = IntList(1961, 2023)

====
